---- MODULE Spec2Model ----
(***************************************************************************)
(* Model of the Newick parser (newick_parser_lite.py), the jplace tree     *)
(* decoder and the geometry passes (jplace_tree.py).                       *)
(*                                                                         *)
(* Strings are sequences of one-character strings.  Python positions are   *)
(* 0-based: the character at Python index p is buf[p + 1], and the slice   *)
(* s[a:b] is SubSeq(buf, a + 1, b).                                        *)
(*                                                                         *)
(* Nodes are numbered in creation order; nodes[n] holds the attributes of  *)
(* node n.  An attribute that Python leaves unset (or None) is the empty   *)
(* sequence <<>>, a set attribute x is <<x>>.                              *)
(***************************************************************************)
EXTENDS Integers, Sequences, FiniteSets, TLC

VARIABLES
    buf,        \* the string handed to parse()
    node_t,     \* the node class of the tree (the decoder in use)
    nodes,      \* the node objects, by creation order
    root,       \* NewickTreeBase.__root (NoNode before parse)
    top,        \* parse(): the current node
    pos,        \* parse(): index of the next character to read
    last_pos,   \* parse(): start of the unconsumed bare text
    status,     \* "empty", "parsing", "parsed" or "failed"
    error,      \* the exception that ended parse(), "" when none
    warned,     \* the junk spans warned about, in order
    id_map,     \* JplaceTree._id_map, as a set of <<node_id, node>>
    h_end,      \* the value the last root.place_h(0) returned
    last_op,    \* the last public operation applied to the tree
    calls,      \* the number of parse() calls made on the tree
    reparse     \* the exception of the last parse() on a non-empty tree

vars == <<buf, node_t, nodes, root, top, pos, last_pos, status, error,
          warned, id_map, h_end, last_op, calls, reparse>>

----------------------------------------------------------------------------
(* Bounds and representation *)

MaxLen == 5
MaxCalls == 2

NoNode == 0

Lite == "NewickTreeLiteNode"
Geo == "JplaceTreeNodeGeo"

Control == {"(", ")", ","}

PlainAlphabet == Control \cup {"A"}

StringsUpTo(alphabet, n) == UNION {[1..k -> alphabet] : k \in 0..n}

Some(x) == <<x>>
None == <<>>

OrphanError == "NewickFormatError: orphan ')'"
UnclosedError == "NewickFormatError: expected ')'"
SeparatorError == "NewickFormatError: expected separator"

----------------------------------------------------------------------------
(* Nodes *)

\* NewickTreeNodeBase.__init__
NewNodeNotReady(st) ==
    [parent |-> NoNode, children |-> <<>>, start |-> st, end |-> None,
     ready |-> FALSE, n_subtree_nodes |-> 0,
     text |-> None, name |-> None, nid |-> None, pdist |-> None,
     h_pos |-> None, v_pos |-> None]
NewNode(st) ==
    [parent |-> NoNode, children |-> <<>>, start |-> st, end |-> None,
     ready |-> TRUE, n_subtree_nodes |-> 0,
     text |-> None, name |-> None, nid |-> None, pdist |-> None,
     h_pos |-> None, v_pos |-> None]

RECURSIVE SumCounts(_, _)
SumCounts(ns, cs) ==
    IF cs = <<>> THEN 0
    ELSE ns[Head(cs)].n_subtree_nodes + SumCounts(ns, Tail(cs))

\* _lazy_count_subtree_nodes: the value stored into __n_subtree_nodes
LazyCount(ns, n) == SumCounts(ns, ns[n].children) + Len(ns[n].children)

\* the upward loop of add_child
RecountSelfOnly(ns, n) == [ns EXCEPT ![n].n_subtree_nodes = LazyCount(ns, n)]
RECURSIVE RecountUp(_, _)
RecountUp(ns, n) ==
    IF n = NoNode THEN ns
    ELSE RecountUp([ns EXCEPT ![n].n_subtree_nodes = LazyCount(ns, n)],
                   ns[n].parent)

\* add_child(self = p, child = c); c is already in ns
AddChildUnbound(ns, p, c) ==
    RecountUp([ns EXCEPT ![p].children = Append(@, c)], p)
add_child(ns, p, c) ==
    RecountUp([ns EXCEPT ![p].children = Append(@, c), ![c].parent = p], p)

\* all_subtree_nodes: pre-order sequence of the subtree of n
RECURSIVE all_subtree_nodes(_, _)
RECURSIVE ChainSubtrees(_, _)
all_subtree_nodes(ns, n) == <<n>> \o ChainSubtrees(ns, ns[n].children)
ChainSubtrees(ns, cs) ==
    IF cs = <<>> THEN <<>>
    ELSE all_subtree_nodes(ns, Head(cs)) \o ChainSubtrees(ns, Tail(cs))

----------------------------------------------------------------------------
(* Decoders: handler_bare_text.  The result is [nodes, err]; err = "" when *)
(* the handler returns normally.                                           *)

\* NewickTreeLiteNode.handler_bare_text
LiteHandler(ns, n, s) == [nodes |-> [ns EXCEPT ![n].text = Some(s)], err |-> ""]

Digits == <<"0", "1", "2", "3", "4", "5", "6", "7", "8", "9">>
DigitSet == {Digits[i] : i \in 1..10}
DigitVal(c) == (CHOOSE i \in 1..10 : Digits[i] = c) - 1

\* the character class [e.\-\d] of the property pattern
FloatClass == DigitSet \cup {"e", ".", "-"}

\* length of the longest run of characters of cs in s, from index i (1-based)
RECURSIVE RunLen(_, _, _)
RunLen(s, i, cs) ==
    IF i <= Len(s) /\ s[i] \in cs THEN 1 + RunLen(s, i + 1, cs) ELSE 0

\* int() of a string of decimal digits
RECURSIVE IntOf(_)
IntOf(ds) ==
    IF ds = <<>> THEN 0
    ELSE 10 * IntOf(SubSeq(ds, 1, Len(ds) - 1)) + DigitVal(ds[Len(ds)])

RECURSIVE Pow10(_)
Pow10(k) == IF k <= 0 THEN 1 ELSE 10 * Pow10(k - 1)

\* lengths are kept in units of 1/VUnit, horizontal positions in 1/HUnit
VUnit == 10 * 10
HUnit == 2 ^ 10

\* float() of a string over FloatClass: [ok, val].  Accepted are
\* [-] digits [. digits] [e [-] digits] with a digit before or after the dot;
\* val is in units of 1/VUnit.
Scaled(mant, sh) ==
    IF sh >= 0 THEN mant * VUnit * Pow10(sh)
    ELSE (mant * VUnit) \div Pow10(0 - sh)

\* md: the mantissa digits, ni/nf: digits before/after the dot, ne: exponent
\* digits, which start at index i4
FloatVal(s, neg, md, ni, nf, hasE, eneg, i4, ne) ==
    [ok |-> ni + nf >= 1 /\ (hasE => ne >= 1) /\ i4 + ne = Len(s) + 1,
     val |-> (IF neg THEN -1 ELSE 1)
             * Scaled(IntOf(md),
                      (IF eneg THEN -1 ELSE 1)
                      * IntOf(SubSeq(s, i4, i4 + ne - 1)) - nf)]

FloatExp(s, neg, md, ni, nf, i3) ==
    IF i3 <= Len(s) /\ s[i3] = "e"
    THEN IF i3 + 1 <= Len(s) /\ s[i3 + 1] = "-"
         THEN FloatVal(s, neg, md, ni, nf, TRUE, TRUE, i3 + 2,
                       RunLen(s, i3 + 2, DigitSet))
         ELSE FloatVal(s, neg, md, ni, nf, TRUE, FALSE, i3 + 1,
                       RunLen(s, i3 + 1, DigitSet))
    ELSE FloatVal(s, neg, md, ni, nf, FALSE, FALSE, i3, 0)

FloatFrac(s, neg, i0, ni, nf) ==
    IF nf < 0
    THEN FloatExp(s, neg, SubSeq(s, i0, i0 + ni - 1), ni, 0, i0 + ni)
    ELSE FloatExp(s, neg,
                  SubSeq(s, i0, i0 + ni - 1)
                      \o SubSeq(s, i0 + ni + 1, i0 + ni + nf),
                  ni, nf, i0 + ni + 1 + nf)

\* nf < 0 stands for "no dot"
FloatInt(s, neg, i0, ni) ==
    IF i0 + ni <= Len(s) /\ s[i0 + ni] = "."
    THEN FloatFrac(s, neg, i0, ni, RunLen(s, i0 + ni + 1, DigitSet))
    ELSE FloatFrac(s, neg, i0, ni, -1)

float(s) ==
    IF Len(s) >= 1 /\ s[1] = "-"
    THEN FloatInt(s, TRUE, 2, RunLen(s, 2, DigitSet))
    ELSE FloatInt(s, FALSE, 1, RunLen(s, 1, DigitSet))

\* number of occurrences of c in s
RECURSIVE Count(_, _)
Count(s, c) ==
    IF s = <<>> THEN 0
    ELSE (IF Head(s) = c THEN 1 ELSE 0) + Count(Tail(s), c)

\* re.match(r"([e.\-\d]*){(\d+)}(\[(\d+)\])?", props): [ok, g1, g2]
MatchPropsLastGroup(props) ==
    LET n1 == RunLen(props, 1, FloatClass)
        n2 == RunLen(props, n1 + 2, DigitSet)
        n4 == RunLen(props, n1 + n2 + 4, DigitSet)
        bracketed == /\ n1 + n2 + 3 <= Len(props)
                     /\ props[n1 + n2 + 3] = "["
                     /\ n4 >= 1
    IN  [ok |-> /\ n1 + 1 <= Len(props)
                /\ props[n1 + 1] = "{"
                /\ n2 >= 1
                /\ n1 + 2 + n2 <= Len(props)
                /\ props[n1 + 2 + n2] = "}",
         g1 |-> SubSeq(props, 1, n1),
         g2 |-> IF bracketed
                THEN SubSeq(props, n1 + n2 + 4, n1 + n2 + 3 + n4)
                ELSE SubSeq(props, n1 + 2, n1 + 1 + n2)]
MatchProps(props) ==
    LET n1 == RunLen(props, 1, FloatClass)
        n2 == RunLen(props, n1 + 2, DigitSet)
    IN  [ok |-> /\ n1 + 1 <= Len(props)
                /\ props[n1 + 1] = "{"
                /\ n2 >= 1
                /\ n1 + 2 + n2 <= Len(props)
                /\ props[n1 + 2 + n2] = "}",
         g1 |-> SubSeq(props, 1, n1),
         g2 |-> SubSeq(props, n1 + 2, n1 + 1 + n2)]

\* JplaceTreeNode.handler_bare_text
JplaceHandler(ns, n, s) ==
    IF Count(s, ":") # 1
    THEN \* the 2-tuple unpacking of s.split(":") fails; only IndexError is caught
         [nodes |-> ns, err |-> "ValueError"]
    ELSE LET colon == CHOOSE i \in 1..Len(s) : s[i] = ":"
             name == SubSeq(s, 1, colon - 1)
             props == SubSeq(s, colon + 1, Len(s))
             named == [ns EXCEPT ![n].name = Some(name)]
             m == MatchProps(props)
             ided == [named EXCEPT ![n].nid = Some(IntOf(m.g2))]
             f == float(m.g1)
         IN  IF ~m.ok
             THEN [nodes |-> named, err |-> "JplaceTreeFormatError"]
             ELSE IF ~f.ok
             THEN [nodes |-> ided, err |-> "ValueError"]
             ELSE [nodes |-> [ided EXCEPT ![n].pdist = Some(f.val)],
                   err |-> ""]

handler_bare_text(kind, ns, n, s) ==
    IF kind = Lite THEN LiteHandler(ns, n, s) ELSE JplaceHandler(ns, n, s)

----------------------------------------------------------------------------
(* Parser-only node methods *)

\* parser_add_child(self = p, child = c): c is the last node of ns
ParserAddChildUnchecked(ns, p, c) ==
    [nodes |-> [add_child(ns, p, c) EXCEPT ![p].ready = FALSE], err |-> ""]
ParserAddChildStaysReady(ns, p, c) ==
    IF ~ns[p].ready
    THEN [nodes |-> ns, err |-> SeparatorError]
    ELSE [nodes |-> add_child(ns, p, c), err |-> ""]
parser_add_child(ns, p, c) ==
    IF ~ns[p].ready
    THEN [nodes |-> ns, err |-> SeparatorError]
    ELSE [nodes |-> [add_child(ns, p, c) EXCEPT ![p].ready = FALSE], err |-> ""]

\* parser_add_separator
ParserAddSeparatorNot(ns, p) == ns
parser_add_separator(ns, p) == [ns EXCEPT ![p].ready = TRUE]

\* parser_put_bare_text(self = p, pos = at, s)
PutBareTextIntoSelf(kind, ns, p, at, s) ==
    IF ns[p].ready
    THEN LET new == Len(ns) + 1
             made == Append(ns, [NewNode(Some(at)) EXCEPT
                                    !.end = Some(at + Len(s))])
             h == handler_bare_text(kind, made, new, s)
         IN  IF h.err # "" THEN [nodes |-> ns, err |-> h.err]
             ELSE parser_add_child(h.nodes, p, new)
    ELSE handler_bare_text(kind, ns, p, s)
parser_put_bare_text(kind, ns, p, at, s) ==
    IF ns[p].ready
    THEN LET new == Len(ns) + 1
             made == Append(ns, [NewNode(Some(at)) EXCEPT
                                    !.end = Some(at + Len(s))])
             h == handler_bare_text(kind, made, new, s)
         IN  IF h.err # "" THEN [nodes |-> ns, err |-> h.err]
             ELSE parser_add_child(h.nodes, p, new)
    ELSE handler_bare_text(kind, ns, ns[p].children[Len(ns[p].children)], s)

----------------------------------------------------------------------------
(* parse() *)

Slice(s, a, b) == SubSeq(s, a + 1, b)

Fail(e) ==
    /\ status' = "failed"
    /\ error' = e

\* parse(): "if self.root is not None"
RootIsSetNever == FALSE
RootIsSetAfterSuccess == root # NoNode /\ status = "parsed"
RootIsSet == root # NoNode

\* parse(): the lines before the loop.  On a tree with a root the call raises
\* RuntimeError; otherwise the root is created and the loop starts.
ParseCall ==
    /\ status # "parsing"
    /\ calls < MaxCalls
    /\ calls' = calls + 1
    /\ last_op' = "parse"
    /\ IF RootIsSet
       THEN /\ reparse' = "RuntimeError"
            /\ UNCHANGED <<nodes, root, top, pos, last_pos, status, error,
                           warned, id_map, h_end>>
       ELSE /\ nodes' = <<NewNode(Some(0))>>
            /\ root' = 1
            /\ top' = 1
            /\ pos' = 0
            /\ last_pos' = 0
            /\ status' = "parsing"
            /\ error' = ""
            /\ warned' = <<>>
            /\ id_map' = {}
            /\ h_end' = None
            /\ reparse' = ""
    /\ UNCHANGED <<buf, node_t>>

\* c == "(": "if pos > last_pos", there is text the loop has not delivered
HasJunkNever(lp, p) == FALSE
HasJunk(lp, p) == p > lp

\* loop body, c == "("
ParseOpen ==
    /\ status = "parsing"
    /\ pos < Len(buf)
    /\ buf[pos + 1] = "("
    /\ warned' = IF HasJunk(last_pos, pos)
                 THEN Append(warned, <<last_pos, pos>>)
                 ELSE warned
    /\ LET new == Len(nodes) + 1
           r == parser_add_child(Append(nodes, NewNode(Some(pos))), top, new)
       IN  IF r.err # ""
           THEN /\ Fail(r.err)
                /\ UNCHANGED <<nodes, top, pos, last_pos>>
           ELSE /\ nodes' = r.nodes
                /\ top' = new
                /\ last_pos' = pos + 1
                /\ pos' = pos + 1
                /\ UNCHANGED <<status, error>>
    /\ UNCHANGED <<buf, node_t, root, id_map, h_end, last_op, calls, reparse>>

\* loop body, c == ","
ParseComma ==
    /\ status = "parsing"
    /\ pos < Len(buf)
    /\ buf[pos + 1] = ","
    /\ LET r == parser_put_bare_text(node_t, nodes, top, pos,
                                     Slice(buf, last_pos, pos))
       IN  IF r.err # ""
           THEN /\ Fail(r.err)
                /\ nodes' = r.nodes
                /\ UNCHANGED <<pos, last_pos>>
           ELSE /\ nodes' = parser_add_separator(r.nodes, top)
                /\ last_pos' = pos + 1
                /\ pos' = pos + 1
                /\ UNCHANGED <<status, error>>
    /\ UNCHANGED <<buf, node_t, root, top, warned, id_map, h_end, last_op,
                   calls, reparse>>

\* "if top is root" at ')'
IsOrphanShallow(ns, t, r) == t = r \/ ns[t].parent = r
IsOrphan(ns, t, r) == t = r

\* loop body, c == ")"
ParseClose ==
    /\ status = "parsing"
    /\ pos < Len(buf)
    /\ buf[pos + 1] = ")"
    /\ IF IsOrphan(nodes, top, root)
       THEN /\ Fail(OrphanError)
            /\ UNCHANGED <<nodes, top, pos, last_pos>>
       ELSE LET ended == [nodes EXCEPT ![top].end = Some(pos + 1)]
                r == parser_put_bare_text(node_t, ended, top, pos,
                                          Slice(buf, last_pos, pos))
            IN  IF r.err # ""
                THEN /\ Fail(r.err)
                     /\ nodes' = r.nodes
                     /\ UNCHANGED <<top, pos, last_pos>>
                ELSE /\ nodes' = r.nodes
                     /\ top' = nodes[top].parent
                     /\ last_pos' = pos + 1
                     /\ pos' = pos + 1
                     /\ UNCHANGED <<status, error>>
    /\ UNCHANGED <<buf, node_t, root, warned, id_map, h_end, last_op, calls, reparse>>

\* loop body, any other character: no branch of the if/elif chain is taken
ParseText ==
    /\ status = "parsing"
    /\ pos < Len(buf)
    /\ buf[pos + 1] \notin Control
    /\ pos' = pos + 1
    /\ UNCHANGED <<buf, node_t, nodes, root, top, last_pos, status, error,
                   warned, id_map, h_end, last_op, calls, reparse>>

\* JplaceTreeNode.node_id: getattr(self, "_nid", -1)
node_id(ns, n) == IF ns[n].nid = None THEN -1 ELSE ns[n].nid[1]

\* JplaceTree.parse: the index loop over all_nodes, stopped by the assert
BuildIdMapOverwrite(ns, order, m) ==
    [map |-> {<<node_id(ns, order[i]), order[i]>> : i \in
                 {j \in 1..Len(order) :
                     \A l \in (j + 1)..Len(order) :
                         node_id(ns, order[l]) # node_id(ns, order[j])}},
     err |-> ""]
RECURSIVE BuildIdMap(_, _, _)
BuildIdMap(ns, order, m) ==
    IF order = <<>> THEN [map |-> m, err |-> ""]
    ELSE LET n == Head(order)
             k == node_id(ns, n)
         IN  IF \E e \in m : e[1] = k
             THEN [map |-> m, err |-> "AssertionError"]
             ELSE BuildIdMap(ns, Tail(order), m \cup {<<k, n>>})

\* JplaceTree.__getitem__: self._id_map[node_id]
getitem(m, k) ==
    IF \E e \in m : e[1] = k
    THEN [err |-> "", node |-> (CHOOSE e \in m : e[1] = k)[2]]
    ELSE [err |-> "KeyError", node |-> NoNode]

\* "if top is not root" after the loop
IsUnclosedNever(t, r) == FALSE
IsUnclosed(t, r) == t # r

\* parse(): after the loop
ParseEnd ==
    /\ status = "parsing"
    /\ pos = Len(buf)
    /\ IF IsUnclosed(top, root)
       THEN /\ Fail(UnclosedError)
            /\ UNCHANGED <<nodes, id_map>>
       ELSE IF Len(buf) = 0
       THEN \* the loop never bound 'pos'
            /\ Fail("UnboundLocalError")
            /\ UNCHANGED <<nodes, id_map>>
       ELSE LET r == parser_put_bare_text(node_t, nodes, root, Len(buf) - 1,
                                          Slice(buf, last_pos, Len(buf)))
                done == [r.nodes EXCEPT ![root].end = Some(Len(buf))]
                idx == BuildIdMap(done, all_subtree_nodes(done, root), id_map)
            IN  IF r.err # ""
                THEN /\ Fail(r.err)
                     /\ nodes' = r.nodes
                     /\ UNCHANGED id_map
                ELSE /\ nodes' = done
                     /\ IF node_t = Lite
                        THEN /\ status' = "parsed"
                             /\ UNCHANGED <<error, id_map>>
                        ELSE /\ id_map' = idx.map
                             /\ IF idx.err # "" THEN Fail(idx.err)
                                ELSE /\ status' = "parsed"
                                     /\ UNCHANGED error
    /\ UNCHANGED <<buf, node_t, root, top, pos, last_pos, warned, h_end,
                   last_op, calls, reparse>>

----------------------------------------------------------------------------
(* Sorting *)

\* list.sort(key = n_subtree_nodes, reverse): stable insertion of c into the
\* sorted sequence cs; equal keys keep their order in both directions
RECURSIVE InsertSorted(_, _, _, _)
InsertSorted(ns, cs, c, reverse) ==
    IF cs = <<>> THEN <<c>>
    ELSE LET l == cs[Len(cs)]
             after == IF reverse
                      THEN ns[l].n_subtree_nodes >= ns[c].n_subtree_nodes
                      ELSE ns[l].n_subtree_nodes <= ns[c].n_subtree_nodes
         IN  IF after THEN Append(cs, c)
             ELSE Append(InsertSorted(ns, SubSeq(cs, 1, Len(cs) - 1), c,
                                      reverse), l)

RECURSIVE SortedSeq(_, _, _)
SortedSeq(ns, cs, reverse) ==
    IF cs = <<>> THEN <<>>
    ELSE InsertSorted(ns, SortedSeq(ns, SubSeq(cs, 1, Len(cs) - 1), reverse),
                      cs[Len(cs)], reverse)

RECURSIVE Reversed(_)
Reversed(cs) == IF cs = <<>> THEN <<>> ELSE Append(Reversed(Tail(cs)), Head(cs))

\* NewickTreeNodeBase.sort
SortThenReverse(ns, n, reverse) ==
    [ns EXCEPT ![n].children =
        IF reverse THEN Reversed(SortedSeq(ns, @, FALSE))
        ELSE SortedSeq(ns, @, FALSE)]
sort_node(ns, n, reverse) ==
    [ns EXCEPT ![n].children = SortedSeq(ns, @, reverse)]

\* NewickTreeBase.sort
SortTopOnly(ns, n, reverse) == sort_node(ns, n, reverse)

\* NewickTreeBase.sort: the loop over the lazy all_nodes traversal; a node is
\* yielded, sorted, and only then are its children read by the generator
RECURSIVE sort_tree(_, _, _)
RECURSIVE SortEach(_, _, _)
sort_tree(ns, n, reverse) ==
    LET here == sort_node(ns, n, reverse)
    IN  SortEach(here, here[n].children, reverse)
SortEach(ns, cs, reverse) ==
    IF cs = <<>> THEN ns
    ELSE SortEach(sort_tree(ns, Head(cs), reverse), Tail(cs), reverse)

\* the nodes the all_nodes generator yields to the loop of NewickTreeBase.sort,
\* in order: n, then the nodes of the subtrees of n's children as n holds
\* them when the generator is resumed, i.e. after n was sorted.  Sorting the
\* nodes of one subtree changes no node of another, so each child's subtree
\* is traversed from the same nodes.
RECURSIVE sort_visits(_, _, _)
RECURSIVE VisitsEach(_, _, _)
sort_visits(ns, n, reverse) ==
    <<n>> \o VisitsEach(ns, SortedSeq(ns, ns[n].children, reverse), reverse)
VisitsEach(ns, cs, reverse) ==
    IF cs = <<>> THEN <<>>
    ELSE sort_visits(ns, Head(cs), reverse)
         \o VisitsEach(ns, Tail(cs), reverse)

\* NewickTreeNodeBase.sort called on any node of a parsed tree
SortNode ==
    /\ status = "parsed"
    /\ \E n \in 1..Len(nodes), reverse \in BOOLEAN :
          /\ nodes' = sort_node(nodes, n, reverse)
          /\ last_op' = IF reverse THEN "node sort reverse" ELSE "node sort"
    /\ UNCHANGED <<buf, node_t, root, top, pos, last_pos, status, error,
                   warned, id_map, h_end, calls, reparse>>

\* NewickTreeBase.sort
Sort ==
    /\ status = "parsed"
    /\ \E reverse \in BOOLEAN :
          /\ nodes' = sort_tree(nodes, root, reverse)
          /\ last_op' = IF reverse THEN "sort reverse" ELSE "sort"
    /\ UNCHANGED <<buf, node_t, root, top, pos, last_pos, status, error,
                   warned, id_map, h_end, calls, reparse>>

----------------------------------------------------------------------------
(* Geometry (JplaceTreeNodeGeo) *)

\* child_hmin / child_hmax of a node with children
child_hmin(ns, n) == ns[ns[n].children[1]].h_pos[1]
child_hmax(ns, n) == ns[ns[n].children[Len(ns[n].children)]].h_pos[1]

\* the h_pos an internal node is given
CentreFirstChild(ns, n) == child_hmin(ns, n)
Centre(ns, n) == (child_hmin(ns, n) + child_hmax(ns, n)) \div 2

\* the value place_h returns for a leaf placed at start_pos
LeafEndSame(start_pos) == start_pos
LeafEnd(start_pos) == start_pos + 1

\* place_h(self = n, start_pos): [nodes, end]
RECURSIVE place_h(_, _, _)
RECURSIVE PlaceHEach(_, _, _)
place_h(ns, n, start_pos) ==
    IF ns[n].children = <<>>
    THEN [nodes |-> [ns EXCEPT ![n].h_pos = Some(start_pos * HUnit)],
          end |-> LeafEnd(start_pos)]
    ELSE LET r == PlaceHEach(ns, ns[n].children, start_pos)
         IN  [nodes |-> [r.nodes EXCEPT ![n].h_pos = Some(Centre(r.nodes, n))],
              end |-> r.end]
PlaceHEach(ns, cs, start_pos) ==
    IF cs = <<>> THEN [nodes |-> ns, end |-> start_pos]
    ELSE LET r == place_h(ns, Head(cs), start_pos)
         IN  PlaceHEach(r.nodes, Tail(cs), r.end)

\* parent_distance: getattr(self, "_pdist", 0)
parent_distance(ns, n) == IF ns[n].pdist = None THEN 0 ELSE ns[n].pdist[1]

\* the v_pos a node is given under parent_height
HeightAccumulated(ns, n, parent_height) ==
    (IF ns[n].v_pos = None THEN parent_height ELSE ns[n].v_pos[1])
        + parent_distance(ns, n)
HeightNoParent(ns, n, parent_height) == parent_distance(ns, n)
Height(ns, n, parent_height) == parent_height + parent_distance(ns, n)

\* place_v(self = n, parent_height): the nodes after the call
RECURSIVE place_v(_, _, _)
RECURSIVE PlaceVEach(_, _, _)
place_v(ns, n, parent_height) ==
    LET v == Height(ns, n, parent_height)
    IN  PlaceVEach([ns EXCEPT ![n].v_pos = Some(v)], ns[n].children, v)
PlaceVEach(ns, cs, v) ==
    IF cs = <<>> THEN ns
    ELSE PlaceVEach(place_v(ns, Head(cs), v), Tail(cs), v)

\* root.place_h(0)
PlaceH ==
    /\ status = "parsed"
    /\ node_t = Geo
    /\ LET r == place_h(nodes, root, 0)
       IN  /\ nodes' = r.nodes
           /\ h_end' = Some(r.end)
    /\ last_op' = "place_h"
    /\ UNCHANGED <<buf, node_t, root, top, pos, last_pos, status, error,
                   warned, id_map, calls, reparse>>

\* root.place_v(0)
PlaceV ==
    /\ status = "parsed"
    /\ node_t = Geo
    /\ nodes' = place_v(nodes, root, 0)
    /\ last_op' = "place_v"
    /\ UNCHANGED <<buf, node_t, root, top, pos, last_pos, status, error,
                   warned, id_map, h_end, calls, reparse>>

\* JplaceTreeGeo.place_nodes
PlaceNodes ==
    /\ status = "parsed"
    /\ node_t = Geo
    /\ LET r == place_h(nodes, root, 0)
       IN  /\ nodes' = place_v(r.nodes, root, 0)
           /\ h_end' = Some(r.end)
    /\ last_op' = "place_nodes"
    /\ UNCHANGED <<buf, node_t, root, top, pos, last_pos, status, error,
                   warned, id_map, calls, reparse>>

----------------------------------------------------------------------------
(* Inputs *)

MaxTreeNodes == 5
MaxSeed == 1

\* ordered trees as nested sequences: a tree is the sequence of its subtrees
RECURSIVE TreesOf(_)
RECURSIVE ForestsOf(_)
TreesOf(n) == ForestsOf(n - 1)
ForestsOf(m) ==
    IF m = 0 THEN {<<>>}
    ELSE UNION {{<<t>> \o f : t \in TreesOf(k), f \in ForestsOf(m - k)}
                : k \in 1..m}

Shapes == UNION {TreesOf(n) : n \in 1..MaxTreeNodes}

Names == << <<"A">>, <<"B">>, <<>>, <<"C", "d">> >>
Branches == << <<"1", ".", "5">>, <<"1">>, <<"-", "2">>, <<".", "5">>,
               <<"2", "e", "1">>, <<"0">>, <<"2", "5", "e", "-", "2">> >>

\* the lengths the strings of Branches denote, in units of 1/VUnit:
\* 1.5, 1, -2, 0.5, 20, 0, 0.25
BranchValues == <<150, 100, -200, 50, 2000, 0, 25>>
IdBases == <<3, 0, 9>>

RECURSIVE DigitsOf(_)
DigitsOf(n) ==
    IF n < 10 THEN <<Digits[n + 1]>>
    ELSE Append(DigitsOf(n \div 10), Digits[(n % 10) + 1])

\* name, branch length and identifier of the k-th node written
NameOf(k) == Names[(k % Len(Names)) + 1]
BranchOf(k, seed) == ((k + seed) % Len(Branches)) + 1
IdOf(k, seed) == IdBases[(seed % Len(IdBases)) + 1] + k

\* the annotation text of the k-th node written
Label(k, seed, bracket) ==
    NameOf(k) \o <<":">> \o Branches[BranchOf(k, seed)]
    \o <<"{">> \o DigitsOf(IdOf(k, seed)) \o <<"}">>
    \o (IF bracket THEN <<"[", "7", "]">> ELSE <<>>)

\* the annotated notation of a tree: [s, k], k the number of nodes written
RECURSIVE Write(_, _, _, _)
RECURSIVE WriteEach(_, _, _, _)
Write(t, k, seed, bracket) ==
    IF t = <<>> THEN [s |-> Label(k, seed, bracket), k |-> k + 1]
    ELSE LET r == WriteEach(t, k, seed, bracket)
         IN  [s |-> <<"(">> \o r.s \o <<")">> \o Label(r.k, seed, bracket),
              k |-> r.k + 1]
WriteEach(ts, k, seed, bracket) ==
    LET r == Write(Head(ts), k, seed, bracket)
    IN  IF Len(ts) = 1 THEN r
        ELSE LET q == WriteEach(Tail(ts), r.k, seed, bracket)
             IN  [s |-> r.s \o <<",">> \o q.s, k |-> q.k]

TreeInputs ==
    {Write(t, 0, seed, bracket).s :
        t \in Shapes, seed \in 0..MaxSeed, bracket \in BOOLEAN}

\* single annotation texts
MaxLabel == 6
LabelInputs ==
    {Label(k, seed, bracket) :
        k \in 0..MaxLabel, seed \in 0..MaxSeed, bracket \in BOOLEAN}

\* "(A,(B,C))"
PlainScenario == <<"(", "A", ",", "(", "B", ",", "C", ")", ")">>

\* "(A,(A,(A),A))"
SortScenario ==
    <<"(", "A", ",", "(", "A", ",", "(", "A", ")", ",", "A", ")", ")">>

\* "(A:1{1},B:2{2}):0{0}"
GeoScenario ==
    <<"(", "A", ":", "1", "{", "1", "}", ",", "B", ":", "2", "{", "2", "}",
      ")", ":", "0", "{", "0", "}">>

\* annotated inputs the decoder or the index rejects
BadGeoInputs ==
    { <<"(", "A", ":", "1", "{", "1", "}", ")">>,
      <<"A", ":", "{", "3", "}">>,
      <<"A", ":", "1", "{", "x", "}">>,
      <<"A", ":", "1", "{", "1", "}", ",", "B", ":", "1", "{", "1", "}">>,
      <<"(", "A", ")">>,
      <<"A", ":", "B", ":", "1", "{", "1", "}">>,
      <<"A", ":", "1", "{", "1", "}", ":", "x">> }

----------------------------------------------------------------------------
(* Specification *)

PlainInputs ==
    StringsUpTo(PlainAlphabet, MaxLen) \cup {PlainScenario, SortScenario}

GeoInputs == TreeInputs \cup LabelInputs \cup {GeoScenario} \cup BadGeoInputs

Init ==
    /\ \/ node_t = Lite /\ buf \in PlainInputs
       \/ node_t = Geo /\ buf \in GeoInputs
    /\ nodes = <<>>
    /\ root = NoNode
    /\ top = NoNode
    /\ pos = 0
    /\ last_pos = 0
    /\ status = "empty"
    /\ error = ""
    /\ warned = <<>>
    /\ id_map = {}
    /\ h_end = None
    /\ last_op = ""
    /\ calls = 0
    /\ reparse = ""

Next ==
    \/ ParseCall
    \/ ParseOpen
    \/ ParseComma
    \/ ParseClose
    \/ ParseText
    \/ ParseEnd
    \/ Sort
    \/ SortNode
    \/ PlaceH
    \/ PlaceV
    \/ PlaceNodes

Spec == Init /\ [][Next]_vars

----------------------------------------------------------------------------
(* The tree container of tree_base.py, which tree/newick_parser_lite.py    *)
(* parses into: the same parser, and a public force_set_root.              *)

MaxRoots == 2

\* the nodes without a parent: the roots of the trees built so far
Parentless == {n \in 1..Len(nodes) : nodes[n].parent = NoNode}

\* TreeBase.force_set_root(root = arg): arg is None, a node of the tree or a
\* node the caller has just constructed
ForceSetRoot ==
    /\ status # "parsing"
    /\ \E arg \in 0..(Len(nodes) + 1) :
          /\ arg = Len(nodes) + 1 => Cardinality(Parentless) < MaxRoots
          /\ IF arg = NoNode
             THEN \* not an instance of node_type
                  /\ last_op' = "force_set_root: TypeError"
                  /\ UNCHANGED <<nodes, root>>
             ELSE /\ last_op' = "force_set_root"
                  /\ root' = arg
                  /\ nodes' = IF arg = Len(nodes) + 1
                              THEN Append(nodes, NewNode(None))
                              ELSE nodes
    /\ UNCHANGED <<buf, node_t, top, pos, last_pos, status, error, warned,
                   id_map, h_end, calls, reparse>>

\* the container does not depend on what is parsed: "", "A" and "(A,(B,C))"
TreeBaseInputs == {<<>>, <<"A">>, PlainScenario}

InitTreeBase == Init /\ node_t = Lite /\ buf \in TreeBaseInputs

NextTreeBase ==
    \/ ParseCall
    \/ ParseOpen
    \/ ParseComma
    \/ ParseClose
    \/ ParseText
    \/ ParseEnd
    \/ Sort
    \/ SortNode
    \/ ForceSetRoot

SpecTreeBase == InitTreeBase /\ [][NextTreeBase]_vars

----------------------------------------------------------------------------
(* Properties *)

Nodes == 1..Len(nodes)

Finished == status \in {"parsed", "failed"}

\* number of proper descendants of n, by traversal
Descendants(ns, n) == Len(all_subtree_nodes(ns, n)) - 1

\* C1 (as stated): after a parse every node's cached count is 1 + the sum of
\* its children's cached counts.
C1_CountIncludesSelf ==
    status = "parsed" =>
        \A n \in Nodes :
            nodes[n].n_subtree_nodes
                = 1 + SumCounts(nodes, nodes[n].children)

\* C1 (amended): in every state, while parsing and after, every node's cached
\* count is its number of children plus the sum of its children's cached
\* counts, which is the number of its proper descendants (the node itself is
\* not counted).
C1_CountIsDescendants ==
    \A n \in Nodes :
        /\ nodes[n].n_subtree_nodes
              = Len(nodes[n].children) + SumCounts(nodes, nodes[n].children)
        /\ nodes[n].n_subtree_nodes = Descendants(nodes, n)

\* a tree with a node of two children below the root's child has been built
C1_Witness ==
    /\ status = "parsed"
    /\ \E n \in Nodes :
          /\ nodes[n].parent # NoNode
          /\ nodes[nodes[n].parent].parent # NoNode
          /\ Len(nodes[n].children) >= 2
          /\ nodes[root].n_subtree_nodes >= 4

\* balanced parentheses: no prefix closes more groups than it opened, and
\* every group is closed
Balanced(s) ==
    /\ \A k \in 0..Len(s) :
          Count(SubSeq(s, 1, k), ")") <= Count(SubSeq(s, 1, k), "(")
    /\ Count(s, ")") = Count(s, "(")

\* a group opens only where an item may start: at the start of the input,
\* after '(' or after ','
GroupsWellPlaced(s) ==
    \A i \in 1..Len(s) : s[i] = "(" => (i = 1 \/ s[i - 1] \in {"(", ","})

ValidNotation(s) == Balanced(s) /\ GroupsWellPlaced(s)

\* the places where an item may start (0: the start of the input)
Slots(s) == {0} \cup {i \in 1..Len(s) : s[i] \in {"(", ","}}

\* the slot holds a bare-text item (possibly empty): the text after it runs
\* up to ',' or ')' or the end of the input, not up to a '('
IsItem(s, p) ==
    LET q == p + 1 + RunLen(s, p + 1, {c \in {s[i] : i \in 1..Len(s)} :
                                           c \notin Control})
    IN  q > Len(s) \/ s[q] \in {",", ")"}

TokenCount(s) == Count(s, "(") + Cardinality({p \in Slots(s) : IsItem(s, p)})

\* C2 (as stated): the parse of every valid notation string with balanced
\* parentheses succeeds under the plain decoder, and n_total_nodes is the
\* number of groups plus the number of delimited bare-text items.
C2_ValidParsesToTokenCount ==
    (node_t = Lite /\ ValidNotation(buf) /\ Finished) =>
        /\ status = "parsed"
        /\ nodes[root].n_subtree_nodes = TokenCount(buf)

\* the same for the non-empty valid strings
C2_NonEmptyValid ==
    (node_t = Lite /\ ValidNotation(buf) /\ buf # <<>> /\ Finished) =>
        /\ status = "parsed"
        /\ nodes[root].n_subtree_nodes = TokenCount(buf)

\* the characters read so far while the loop is at position pos
Read == SubSeq(buf, 1, pos)

AtClose == status = "parsing" /\ pos < Len(buf) /\ buf[pos + 1] = ")"

\* C3: a ')' read while the current node is the root, which is when the
\* prefix up to and including it has more ')' than '(', ends the parse with
\* the orphan error at that character and changes no node; a ')' read while
\* the current node is not the root never raises the orphan error, and when
\* the step does not end the parse the current node becomes its parent.
C3_OrphanClose ==
    [][AtClose =>
         /\ (top = root) <=> (Count(Read, ")") + 1 > Count(Read, "("))
         /\ top = root =>
               /\ status' = "failed"
               /\ error' = OrphanError
               /\ pos' = pos
               /\ nodes' = nodes
         /\ top # root =>
               /\ error' # OrphanError
               /\ status' = "parsing" =>
                     /\ top' = nodes[top].parent
                     /\ pos' = pos + 1]_vars

\* both cases of C3 have happened: the parse ended on an orphan ')' after a
\* group was closed normally
C3_Witness ==
    /\ status = "failed"
    /\ error = OrphanError
    /\ Count(SubSeq(buf, 1, pos), ")") >= 1

AtEnd == status = "parsing" /\ pos = Len(buf)

\* C4: when the input is consumed with the current node not the root, which
\* is when more '(' than ')' were read, the parse fails with the unclosed
\* group error; with the current node at the root that error is not raised;
\* a parsed tree always has its current node back at the root.
C4_UnclosedGroup ==
    [][AtEnd =>
         /\ (top # root) <=> (Count(buf, "(") > Count(buf, ")"))
         /\ top # root =>
               /\ status' = "failed"
               /\ error' = UnclosedError
               /\ nodes' = nodes
         /\ top = root => error' # UnclosedError
         /\ status' = "parsed" => top = root]_vars

\* the unclosed-group error was raised with two groups open
C4_Witness ==
    /\ status = "failed"
    /\ error = UnclosedError
    /\ pos = Len(buf)
    /\ nodes[top].parent # NoNode
    /\ nodes[top].parent # root

\* C5: a parse() call on a tree whose root is set raises an error and leaves
\* the root, the nodes, their payloads and the index unchanged; the root is
\* created by at most one call.
C5_SingleParse ==
    [][calls' = calls + 1 =>
         /\ root # NoNode =>
               /\ reparse' = "RuntimeError"
               /\ root' = root
               /\ nodes' = nodes
               /\ id_map' = id_map
               /\ status' = status
               /\ error' = error
         /\ root = NoNode => calls = 0]_vars

\* parse() was called again on a parsed tree with several nodes
C5_Witness ==
    /\ calls = 2
    /\ reparse = "RuntimeError"
    /\ status = "parsed"
    /\ Len(nodes) >= 3

----------------------------------------------------------------------------
(* Geometry properties *)

Laid == status = "parsed" /\ node_t = Geo

IsLeaf(n) == nodes[n].children = <<>>

\* the leaves below n, left to right
LeavesOf(n) == SelectSeq(all_subtree_nodes(nodes, n), IsLeaf)

HPlaced == Laid /\ last_op \in {"place_h", "place_nodes"}

\* C6: right after the horizontal pass from the root with counter 0, the
\* value returned is the number of leaves, and the leaves, taken left to
\* right in stored child order, are at the positions 0, 1, .., L-1.
C6_LeavesConsecutive ==
    HPlaced =>
        LET leaves == LeavesOf(root)
        IN  /\ h_end = Some(Len(leaves))
            /\ \A i \in 1..Len(leaves) :
                  nodes[leaves[i]].h_pos = Some((i - 1) * HUnit)

\* the pass ran on a tree of at least three leaves at different depths whose
\* children had been reordered
C6_Witness ==
    /\ HPlaced
    /\ Len(LeavesOf(root)) >= 3
    /\ \E n \in Nodes : IsLeaf(n) /\ nodes[nodes[n].parent].parent = root
    /\ \E n \in Nodes : \E i \in 1..Len(nodes[n].children) - 1 :
          nodes[n].children[i] > nodes[n].children[i + 1]

ChildH(n) == {nodes[nodes[n].children[i]].h_pos[1] :
                 i \in 1..Len(nodes[n].children)}

SetMin(S) == CHOOSE x \in S : \A y \in S : x <= y
SetMax(S) == CHOOSE x \in S : \A y \in S : x >= y

\* C7: right after the horizontal pass every internal node lies midway
\* between its first and its last stored child, as placed by the same pass,
\* which are the smallest and the largest position among its children; and
\* the pass started at any node returns its start value plus the number of
\* leaves below the node, so internal nodes add nothing to the counter.
C7_InternalCentred ==
    HPlaced =>
        \A n \in Nodes : ~IsLeaf(n) =>
            LET cs == nodes[n].children
                first == nodes[cs[1]].h_pos[1]
                last == nodes[cs[Len(cs)]].h_pos[1]
            IN  /\ 2 * nodes[n].h_pos[1] = first + last
                /\ first = SetMin(ChildH(n))
                /\ last = SetMax(ChildH(n))
                /\ place_h(nodes, n, 0).end = Len(LeavesOf(n))

\* an internal node with an internal first child and a leaf last child has
\* been placed off the integers
C7_Witness ==
    /\ HPlaced
    /\ \E n \in Nodes :
          /\ Len(nodes[n].children) >= 2
          /\ ~IsLeaf(nodes[n].children[1])
          /\ nodes[n].h_pos[1] % HUnit # 0
          /\ nodes[n].h_pos[1] % (HUnit \div 2) # 0

\* sum of the branch lengths on the path from the root to n
RECURSIVE PathSum(_)
PathSum(n) ==
    IF nodes[n].parent = NoNode THEN 0
    ELSE PathSum(nodes[n].parent) + parent_distance(nodes, n)

VPlaced == Laid /\ nodes[root].v_pos # None

\* C8: once the vertical pass has run from the root with height 0, the root
\* is at 0 and every other node is at its parent's position plus its own
\* branch length, which is the sum of the branch lengths on its path from
\* the root; reordering the children before the pass gives every node the
\* same position.
C8_VerticalIsPathSum ==
    VPlaced =>
        /\ nodes[root].v_pos = Some(0)
        /\ \A n \in Nodes \ {root} :
              /\ nodes[n].v_pos
                    = Some(nodes[nodes[n].parent].v_pos[1]
                           + parent_distance(nodes, n))
              /\ nodes[n].v_pos = Some(PathSum(n))
        /\ \A reverse \in BOOLEAN : \A n \in Nodes :
              place_v(sort_tree(nodes, root, reverse), root, 0)[n].v_pos
                  = nodes[n].v_pos

\* the pass ran on a tree with a node two levels below the root's child
\* whose position differs from its own branch length and from its parent's
C8_Witness ==
    /\ VPlaced
    /\ \E n \in Nodes :
          /\ nodes[n].parent # NoNode
          /\ nodes[nodes[n].parent].parent # NoNode
          /\ nodes[nodes[nodes[n].parent].parent].parent # NoNode
          /\ nodes[n].v_pos[1] # parent_distance(nodes, n)
          /\ nodes[n].v_pos[1] # nodes[nodes[n].parent].v_pos[1]
          /\ nodes[n].v_pos[1] < 0

\* the structure of the tree: everything but the two positions
Structure(ns) ==
    [n \in 1..Len(ns) |-> [ns[n] EXCEPT !.h_pos = None, !.v_pos = None]]
HPositions(ns) == [n \in 1..Len(ns) |-> ns[n].h_pos]
VPositions(ns) == [n \in 1..Len(ns) |-> ns[n].v_pos]

place_nodes(ns) == place_v(place_h(ns, root, 0).nodes, root, 0)

\* C9: run again on the tree it has just laid out, a pass changes nothing;
\* the horizontal pass leaves every v_pos, the vertical pass every h_pos,
\* and both leave links, counts and payloads as they are.
C9_PassesIdempotent ==
    /\ [](Laid =>
            /\ place_h(place_h(nodes, root, 0).nodes, root, 0)
                  = place_h(nodes, root, 0)
            /\ place_v(place_v(nodes, root, 0), root, 0)
                  = place_v(nodes, root, 0)
            /\ place_nodes(place_nodes(nodes)) = place_nodes(nodes))
    /\ [][/\ last_op' = "place_h" =>
                /\ VPositions(nodes') = VPositions(nodes)
                /\ Structure(nodes') = Structure(nodes)
          /\ last_op' = "place_v" =>
                /\ HPositions(nodes') = HPositions(nodes)
                /\ Structure(nodes') = Structure(nodes)
                /\ h_end' = h_end
          /\ last_op' = "place_nodes" => Structure(nodes') = Structure(nodes)
          /\ (last_op' = last_op
                /\ last_op \in {"place_h", "place_v", "place_nodes"}) =>
                    /\ nodes' = nodes
                    /\ h_end' = h_end]_vars

\* both passes have run on a tree where they matter: an internal node is off
\* the integers and a node lies away from the root's height
C9_Witness ==
    /\ Laid
    /\ last_op = "place_nodes"
    /\ \E n \in Nodes : nodes[n].h_pos # None /\ nodes[n].h_pos[1] % HUnit # 0
    /\ \E n \in Nodes : nodes[n].v_pos # None /\ nodes[n].v_pos[1] > VUnit

----------------------------------------------------------------------------
(* Decoder properties *)

\* C10: an annotation text name:real{int}, with or without a trailing
\* [int], decodes to label = name, branch length = the real and identifier =
\* the braced integer; "A:1.5{3}" and "A:1.5{3}[7]" both give "A", 1.5, 3.
C10_DecodeAnnotation ==
    (node_t = Geo /\ Finished) =>
        /\ \A k \in 0..MaxLabel, seed \in 0..MaxSeed, bracket \in BOOLEAN :
              buf = Label(k, seed, bracket) =>
                  /\ status = "parsed"
                  /\ nodes[2].name = Some(NameOf(k))
                  /\ nodes[2].pdist = Some(BranchValues[BranchOf(k, seed)])
                  /\ nodes[2].nid = Some(IdOf(k, seed))
        /\ buf \in { <<"A", ":", "1", ".", "5", "{", "3", "}">>,
                     <<"A", ":", "1", ".", "5", "{", "3", "}",
                       "[", "7", "]">> } =>
              /\ status = "parsed"
              /\ nodes[2].name = Some(<<"A">>)
              /\ 2 * nodes[2].pdist[1] = 3 * VUnit
              /\ nodes[2].nid = Some(3)

\* "A:1.5{3}[7]" has been decoded
C10_Witness ==
    /\ status = "parsed"
    /\ buf = <<"A", ":", "1", ".", "5", "{", "3", "}", "[", "7", "]">>
    /\ nodes[2].nid = Some(3)
    /\ nodes[2].parent = root

\* the text the step about to be taken hands to the decoder, if it hands any
Delivering ==
    /\ status = "parsing"
    /\ \/ pos < Len(buf) /\ buf[pos + 1] = ","
       \/ pos < Len(buf) /\ buf[pos + 1] = ")" /\ top # root
       \/ pos = Len(buf) /\ top = root /\ Len(buf) > 0
Delivered == Slice(buf, last_pos, pos)

\* the index of the first ':' of s, Len(s) + 1 when it has none
FirstColon(s) == 1 + RunLen(s, 1, {s[i] : i \in 1..Len(s)} \ {":"})

\* the part of s after its first ':'
AfterFirstColon(s) == SubSeq(s, FirstColon(s) + 1, Len(s))

\* s has no ':' or its part after the ':' does not match real{int}[int]?
Malformed(s) == Count(s, ":") = 0 \/ ~MatchProps(AfterFirstColon(s)).ok

\* C11 (as stated): whenever the annotated decoder is handed a text without
\* ':' or whose part after the ':' does not match the pattern, the parse ends
\* with JplaceTreeFormatError; and a step that hands text to the decoder ends
\* the parse with no other error than that one.
C11_MalformedIsFormatError ==
    [][(node_t = Geo /\ Delivering) =>
         /\ Malformed(Delivered) =>
               /\ status' = "failed"
               /\ error' = "JplaceTreeFormatError"
         /\ error' \in {"", "JplaceTreeFormatError", "AssertionError"}]_vars

\* the input is a single annotation text
SingleText == \A i \in 1..Len(buf) : buf[i] \notin Control

\* C12 (as stated): a single text with a ':' whose part after the first ':'
\* matches the pattern, with an empty or a well-formed real, is decoded:
\* label = the part before the first ':', identifier = the braced integer,
\* branch length = the real, 0 when the real is empty ("A:{3}" gives "A", 0,
\* 3).
C12_FirstColonEmptyReal ==
    (node_t = Geo /\ Finished /\ SingleText /\ Count(buf, ":") >= 1) =>
        LET m == MatchProps(AfterFirstColon(buf))
        IN  (m.ok /\ (m.g1 = <<>> \/ float(m.g1).ok)) =>
                /\ status = "parsed"
                /\ nodes[2].name = Some(SubSeq(buf, 1, FirstColon(buf) - 1))
                /\ nodes[2].nid = Some(IntOf(m.g2))
                /\ nodes[2].pdist
                      = Some(IF m.g1 = <<>> THEN 0 ELSE float(m.g1).val)

----------------------------------------------------------------------------
(* Identifier index properties *)

\* the base parse has returned: only then is the root's end position set
BaseParsed == node_t = Geo /\ Finished /\ root # NoNode
              /\ nodes[root].end # None

DuplicateIds ==
    \E n \in Nodes, m \in Nodes :
        n # m /\ node_id(nodes, n) = node_id(nodes, m)

\* the position of node n in the traversal from the root
Rank(n) == CHOOSE i \in 1..Len(nodes) : all_subtree_nodes(nodes, root)[i] = n

\* C13: when the base parse has returned and two nodes carry the same
\* identifier, the index build ends the parse with the assertion error, and
\* the index then still has one entry per identifier, each for the first
\* node in traversal order that carries it (nothing was overwritten); the
\* assertion error is raised for duplicates only; when the parse succeeds
\* the index holds exactly one entry per node, under that node's identifier.
C13_DuplicateIdsFatal ==
    BaseParsed =>
        /\ DuplicateIds <=> (status = "failed" /\ error = "AssertionError")
        /\ \A e \in id_map, f \in id_map : e[1] = f[1] => e = f
        /\ \A e \in id_map :
              /\ e[2] \in Nodes
              /\ e[1] = node_id(nodes, e[2])
              /\ \A n \in Nodes :
                    node_id(nodes, n) = e[1] => Rank(e[2]) <= Rank(n)
        /\ status = "parsed" =>
              /\ id_map = {<<node_id(nodes, n), n>> : n \in Nodes}
              /\ Cardinality(id_map) = Len(nodes)

\* the index build stopped at the second of two leaves with the same
\* identifier, after the root and the first leaf were entered
C13_Witness ==
    /\ BaseParsed
    /\ error = "AssertionError"
    /\ Len(nodes) >= 3
    /\ Cardinality(id_map) = 2
    /\ \E n \in Nodes, m \in Nodes :
          /\ n < m
          /\ nodes[n].nid # None
          /\ nodes[n].nid = nodes[m].nid
          /\ <<nodes[n].nid[1], n>> \in id_map

\* the identifiers queried: from below the default identifier to above the
\* largest identifier of the tree
QueryIds == (0 - 2)..(1 + SetMax({node_id(nodes, n) : n \in Nodes} \cup {0}))

\* C14 (as stated): on a parsed annotated tree the lookup of the decoded
\* identifier of a node returns that node, and the lookup of an identifier
\* that no node was annotated with fails with KeyError; before the index is
\* built every lookup fails with KeyError.
C14_LookupByAnnotation ==
    node_t = Geo =>
        /\ status = "parsed" =>
              /\ \A n \in Nodes : nodes[n].nid # None =>
                    getitem(id_map, nodes[n].nid[1])
                        = [err |-> "", node |-> n]
              /\ \A k \in QueryIds :
                    (\A n \in Nodes : nodes[n].nid # Some(k)) =>
                        getitem(id_map, k).err = "KeyError"
        /\ status \in {"empty", "parsing"} =>
              \A k \in QueryIds : getitem(id_map, k).err = "KeyError"

\* the same, but for the identifier -1 that node_id gives a node without
\* annotation
C14_LookupExceptDefault ==
    node_t = Geo =>
        /\ status = "parsed" =>
              /\ \A n \in Nodes : nodes[n].nid # None =>
                    getitem(id_map, nodes[n].nid[1])
                        = [err |-> "", node |-> n]
              /\ \A k \in QueryIds \ {0 - 1} :
                    (\A n \in Nodes : nodes[n].nid # Some(k)) =>
                        getitem(id_map, k).err = "KeyError"
              /\ getitem(id_map, 0 - 1) = [err |-> "", node |-> root]
        /\ status \in {"empty", "parsing"} =>
              \A k \in QueryIds : getitem(id_map, k).err = "KeyError"

----------------------------------------------------------------------------
(* End of input *)

\* the text after the last delimiter read
Trailing == Slice(buf, last_pos, Len(buf))

Payload(ns, n) == <<ns[n].text, ns[n].name, ns[n].nid, ns[n].pdist>>

\* the payload the decoder in use makes of an accepted text s
Decoded(s) ==
    IF node_t = Lite THEN <<Some(s), None, None, None>>
    ELSE LET m == MatchProps(AfterFirstColon(s))
         IN  <<None, Some(SubSeq(s, 1, FirstColon(s) - 1)),
               Some(IntOf(m.g2)), Some(float(m.g1).val)>>

LastChild(ns, n) == ns[n].children[Len(ns[n].children)]

----------------------------------------------------------------------------
(* Sorting properties *)

Position(cs, c) == CHOOSE i \in 1..Len(cs) : cs[i] = c

CountOf(n) == nodes[n].n_subtree_nodes

\* cs is ordered by cached count, ascending or (reverse) descending
Ordered(cs, reverse) ==
    \A i \in 1..Len(cs), j \in 1..Len(cs) :
        i < j => IF reverse THEN CountOf(cs[i]) >= CountOf(cs[j])
                 ELSE CountOf(cs[i]) <= CountOf(cs[j])

\* new is an ordering of the children old in which children of equal count
\* keep the relative order they have in old
StableOrderingOf(new, old, reverse) ==
    /\ Len(new) = Len(old)
    /\ {new[i] : i \in 1..Len(new)} = {old[i] : i \in 1..Len(old)}
    /\ Ordered(new, reverse)
    /\ \A i \in 1..Len(new), j \in 1..Len(new) :
          (i < j /\ CountOf(new[i]) = CountOf(new[j])) =>
              Position(old, new[i]) < Position(old, new[j])

\* C16: the sort of one node changes nothing but the order of that node's
\* children: they are the same children, ordered by ascending (reverse:
\* descending) cached count, children of equal count in their previous
\* relative order in both directions; every other node, its child order
\* included, and every count is as before.
C16_NodeSortLocalStable ==
    [][last_op' \in {"node sort", "node sort reverse"} =>
         \E n \in Nodes :
            /\ \A m \in Nodes \ {n} : nodes'[m] = nodes[m]
            /\ nodes'[n] = [nodes[n] EXCEPT !.children = nodes'[n].children]
            /\ StableOrderingOf(nodes'[n].children, nodes[n].children,
                                last_op' = "node sort reverse")]_vars

\* a node with two children of equal count and one of another count was
\* sorted descending, while another node's children are still in ascending
\* order
C16_Witness ==
    /\ last_op = "node sort reverse"
    /\ \E n \in Nodes, m \in Nodes :
          /\ n # m
          /\ \E i \in 1..Len(nodes[n].children) - 2 :
                LET cs == nodes[n].children
                IN  /\ CountOf(cs[i]) > CountOf(cs[i + 1])
                    /\ CountOf(cs[i + 1]) = CountOf(cs[i + 2])
                    /\ cs[i] > cs[i + 1]
                    /\ cs[i + 1] < cs[i + 2]
          /\ ~Ordered(nodes[m].children, TRUE)

\* the children of n are not in the order they were created in
NotCreationOrder(n) ==
    \E i \in 1..Len(nodes[n].children) - 1 :
        nodes[n].children[i] > nodes[n].children[i + 1]

----------------------------------------------------------------------------
(* Container properties *)

\* C18 (as stated): no step replaces a root that is set, and no call of
\* force_set_root on a tree with a root returns normally.
C18_RootNeverReplaced ==
    [][root # NoNode => (root' = root /\ last_op' # "force_set_root")]_vars

----------------------------------------------------------------------------
(* Geometry aggregates (JplaceTreeNodeGeo, JplaceTreeGeo).  A query gives   *)
(* [err, val]: the exception it raises ("" when it returns) and the value   *)
(* it returns, None included.                                               *)

Returns(v) == [err |-> "", val |-> v]
Raises(e) == [err |-> e, val |-> None]

\* min() / max() of a non-empty list of positions: every element of a list
\* of two or more is compared, and comparing None raises TypeError
min(vs) ==
    IF Len(vs) = 1 THEN Returns(vs[1])
    ELSE IF \E i \in 1..Len(vs) : vs[i] = None THEN Raises("TypeError")
    ELSE Returns(Some(SetMin({vs[i][1] : i \in 1..Len(vs)})))
max(vs) ==
    IF Len(vs) = 1 THEN Returns(vs[1])
    ELSE IF \E i \in 1..Len(vs) : vs[i] = None THEN Raises("TypeError")
    ELSE Returns(Some(SetMax({vs[i][1] : i \in 1..Len(vs)})))

\* [i.v_pos for i in order]
VPosOf(ns, order) == [i \in 1..Len(order) |-> ns[order[i]].v_pos]

SubtreeHminOwn(ns, n) == Returns(ns[n].h_pos)
RECURSIVE subtree_hmin(_, _)
subtree_hmin(ns, n) ==
    IF ns[n].children # <<>> THEN subtree_hmin(ns, ns[n].children[1])
    ELSE Returns(ns[n].h_pos)

RECURSIVE subtree_hmax(_, _)
subtree_hmax(ns, n) ==
    IF ns[n].children # <<>>
    THEN subtree_hmax(ns, ns[n].children[Len(ns[n].children)])
    ELSE Returns(ns[n].h_pos)

child_vmin(ns, n) ==
    IF ns[n].children # <<>> THEN min(VPosOf(ns, ns[n].children))
    ELSE Returns(None)

child_vmax(ns, n) ==
    IF ns[n].children # <<>> THEN max(VPosOf(ns, ns[n].children))
    ELSE Returns(None)

\* "return self.v_pos # this is always true"
subtree_vmin(ns, n) == Returns(ns[n].v_pos)

subtree_vmax(ns, n) == max(VPosOf(ns, all_subtree_nodes(ns, n)))

\* JplaceTreeGeo.hmin, hmax, vmin, vmax
hmin == subtree_hmin(nodes, root)
hmax == subtree_hmax(nodes, root)
vmin == subtree_vmin(nodes, root)
vmax == subtree_vmax(nodes, root)

\* a parsed tree no pass has run on
Unplaced ==
    Laid /\ \A n \in Nodes : nodes[n].h_pos = None /\ nodes[n].v_pos = None

\* C19 (as stated): on a parsed tree without positions every aggregate, of
\* every node and of the tree, raises an error and returns nothing.
C19_AggregatesNeedPositions ==
    Unplaced =>
        /\ \A n \in Nodes :
              /\ subtree_hmin(nodes, n).err # ""
              /\ subtree_hmax(nodes, n).err # ""
              /\ subtree_vmin(nodes, n).err # ""
              /\ subtree_vmax(nodes, n).err # ""
              /\ child_vmin(nodes, n).err # ""
              /\ child_vmax(nodes, n).err # ""
        /\ hmin.err # "" /\ hmax.err # ""
        /\ vmin.err # "" /\ vmax.err # ""

\* what the aggregates do on such a tree: the horizontal ones and
\* subtree_vmin return None; the others return None for a single position
\* and raise TypeError when they have two or more to compare
C19_NoneOrTypeError ==
    Unplaced =>
        \A n \in Nodes :
            /\ subtree_hmin(nodes, n) = Returns(None)
            /\ subtree_hmax(nodes, n) = Returns(None)
            /\ subtree_vmin(nodes, n) = Returns(None)
            /\ subtree_vmax(nodes, n)
                  = IF IsLeaf(n) THEN Returns(None) ELSE Raises("TypeError")
            /\ child_vmin(nodes, n)
                  = IF Len(nodes[n].children) <= 1 THEN Returns(None)
                    ELSE Raises("TypeError")
            /\ child_vmax(nodes, n) = child_vmin(nodes, n)

\* the vertical positions of the subtree of n
SubtreeV(n) ==
    {nodes[all_subtree_nodes(nodes, n)[i]].v_pos[1] :
        i \in 1..Len(all_subtree_nodes(nodes, n))}

\* C20 (as stated): once the vertical pass has run, subtree_vmin of every
\* node is the smallest and subtree_vmax the largest vertical position in
\* the node's subtree, the node included, whatever the signs of the branch
\* lengths.
C20_SubtreeVExtremes ==
    VPlaced =>
        \A n \in Nodes :
            /\ subtree_vmin(nodes, n) = Returns(Some(SetMin(SubtreeV(n))))
            /\ subtree_vmax(nodes, n) = Returns(Some(SetMax(SubtreeV(n))))

\* the same for the maximum alone, and for the minimum where no branch
\* length is negative
C20_MaxAndUnsignedMin ==
    VPlaced =>
        \A n \in Nodes :
            /\ subtree_vmax(nodes, n) = Returns(Some(SetMax(SubtreeV(n))))
            /\ (\A m \in Nodes : parent_distance(nodes, m) >= 0) =>
                  subtree_vmin(nodes, n) = Returns(Some(SetMin(SubtreeV(n))))

\* the horizontal positions of the leaves of the subtree of n
LeafH(n) == {nodes[LeavesOf(n)[i]].h_pos[1] : i \in 1..Len(LeavesOf(n))}

\* C21: right after the horizontal pass, subtree_hmin and subtree_hmax of
\* every node are the smallest and the largest position among the leaves of
\* its subtree, these leaves are at exactly the consecutive integers from
\* the one to the other, and the node itself lies between the two.
C21_SubtreeHExtremes ==
    HPlaced =>
        \A n \in Nodes :
            LET lo == subtree_hmin(nodes, n)
                hi == subtree_hmax(nodes, n)
            IN  /\ lo = Returns(Some(SetMin(LeafH(n))))
                /\ hi = Returns(Some(SetMax(LeafH(n))))
                /\ lo.val[1] % HUnit = 0
                /\ hi.val[1] % HUnit = 0
                /\ LeafH(n) = {k * HUnit :
                                 k \in (lo.val[1] \div HUnit)
                                       ..(hi.val[1] \div HUnit)}
                /\ Cardinality(LeafH(n)) = Len(LeavesOf(n))
                /\ lo.val[1] <= nodes[n].h_pos[1]
                /\ nodes[n].h_pos[1] <= hi.val[1]

\* the pass has placed an internal node whose leaves start right of 0 and
\* which lies strictly between its extremes
C21_Witness ==
    /\ HPlaced
    /\ \E n \in Nodes :
          /\ subtree_hmin(nodes, n).val[1] >= HUnit
          /\ subtree_hmin(nodes, n).val[1] < nodes[n].h_pos[1]
          /\ nodes[n].h_pos[1] < subtree_hmax(nodes, n).val[1]

----------------------------------------------------------------------------
(* Structural properties of the parse *)

\* the number of places c takes in the child sequence of p
Occurrences(p, c) ==
    Cardinality({i \in 1..Len(nodes[p].children) : nodes[p].children[i] = c})

RECURSIVE SumOccurrences(_, _)
SumOccurrences(p, c) ==
    IF p = 0 THEN 0 ELSE Occurrences(p, c) + SumOccurrences(p - 1, c)

\* C22: in every state, while parsing and after, a node c has parent p
\* exactly when c is in the child sequence of p; a node is at one place of
\* one child sequence at most; the root and only the root has no parent; and
\* no step removes a node or changes the parent of a node that has one.
C22_ParentChildAgree ==
    /\ [](\A c \in Nodes :
            /\ \A p \in Nodes :
                  (nodes[c].parent = p) <=> (Occurrences(p, c) >= 1)
            /\ SumOccurrences(Len(nodes), c) <= 1
            /\ (nodes[c].parent = NoNode) <=> (c = root))
    /\ [][\A n \in Nodes :
            /\ n <= Len(nodes')
            /\ nodes'[n].parent = nodes[n].parent
            /\ root' = root]_vars

\* the parse is under way with a node that has got two children, one of
\* them a group with a child of its own
C22_Witness ==
    /\ status = "parsing"
    /\ \E n \in Nodes :
          /\ Len(nodes[n].children) >= 2
          /\ nodes[n].parent # NoNode
          /\ \E i \in 1..Len(nodes[n].children) :
                nodes[nodes[n].children[i]].children # <<>>

\* the arguments of the parser_put_bare_text call of the step about to be
\* taken: the nodes as the call finds them (at ')' the end of the current
\* node is already set), and the position handed over
DeliveryNodes ==
    IF pos < Len(buf) /\ buf[pos + 1] = ")"
    THEN [nodes EXCEPT ![top].end = Some(pos + 1)]
    ELSE nodes
DeliveryAt == IF pos = Len(buf) THEN Len(buf) - 1 ELSE pos
PutResult ==
    parser_put_bare_text(node_t, DeliveryNodes, top, DeliveryAt, Delivered)

\* everything of a node but its payload
Frame(ns, n) ==
    [ns[n] EXCEPT !.text = None, !.name = None, !.nid = None, !.pdist = None]

\* C23: a bare-text delivery to the node P that returns normally does this:
\* with P ready, exactly one node is created, decoded from the text,
\* appended as the last child of P, and P is no longer ready; with P not
\* ready, no node is created, the text is decoded into the last child of P,
\* and P, its flag and child sequence included, is as before.  No other
\* node's payload, children or flag change.  A delivery the decoder rejects
\* adds no node.
C23_PutBareText ==
    Delivering =>
        LET ns == DeliveryNodes
            r == PutResult
            new == Len(ns) + 1
        IN  IF r.err # "" THEN Len(r.nodes) = Len(ns)
            ELSE IF ns[top].ready
            THEN /\ Len(r.nodes) = new
                 /\ r.nodes[top].children = Append(ns[top].children, new)
                 /\ ~r.nodes[top].ready
                 /\ Payload(r.nodes, new) = Decoded(Delivered)
                 /\ r.nodes[new].parent = top
                 /\ r.nodes[new].children = <<>>
                 /\ r.nodes[new].ready
                 /\ \A n \in Nodes \ {top} :
                       /\ Payload(r.nodes, n) = Payload(ns, n)
                       /\ r.nodes[n].children = ns[n].children
                       /\ r.nodes[n].ready = ns[n].ready
                 /\ Payload(r.nodes, top) = Payload(ns, top)
            ELSE /\ Len(r.nodes) = Len(ns)
                 /\ Payload(r.nodes, LastChild(ns, top)) = Decoded(Delivered)
                 /\ \A n \in Nodes : Frame(r.nodes, n) = Frame(ns, n)
                 /\ \A n \in Nodes \ {LastChild(ns, top)} :
                       r.nodes[n] = ns[n]

\* a non-empty text is about to be delivered, and accepted, as the trailing
\* text of a group just closed inside another group
C23_Witness ==
    /\ Delivering
    /\ top # root
    /\ ~nodes[top].ready
    /\ Delivered # <<>>
    /\ PutResult.err = ""
    /\ nodes[LastChild(nodes, top)].children # <<>>

\* the nesting depth at which the character at index i (from 1) stands
DepthAt(i) ==
    Count(SubSeq(buf, 1, i - 1), "(") - Count(SubSeq(buf, 1, i - 1), ")")

\* the number of ',' at depth d among the characters from index a to b
CommasAt(d, a, b) ==
    Cardinality({i \in a..b : buf[i] = "," /\ DepthAt(i) = d})

\* n was created by a '('
IsGroup(n) ==
    /\ n # root
    /\ nodes[n].start # None
    /\ nodes[n].start[1] < Len(buf)
    /\ buf[nodes[n].start[1] + 1] = "("

\* the number of ',' directly inside n, a group of a parsed tree or its root
CommasInside(n) ==
    IF n = root THEN CommasAt(0, 1, Len(buf))
    ELSE CommasAt(DepthAt(nodes[n].start[1] + 1) + 1,
                  nodes[n].start[1] + 2, nodes[n].end[1] - 1)

AtComma == status = "parsing" /\ pos < Len(buf) /\ buf[pos + 1] = ","

\* C24: a ',' step that does not end the parse leaves the current node
\* ready, whatever text it delivered; the delivery that follows a ',' with
\* no group opened in between finds the current node ready and so makes a
\* new child, also of an empty text; and in a parsed tree the root and
\* every group have one child more than there are ',' directly inside them.
C24_CommaStartsSibling ==
    /\ [][(AtComma /\ status' = "parsing") =>
            /\ nodes'[top].ready
            /\ top' = top
            /\ last_pos' = pos + 1
            /\ \A n \in Nodes : nodes'[n] = [PutResult.nodes[n] EXCEPT
                                    !.ready = nodes'[n].ready]]_vars
    /\ []((Delivering /\ last_pos >= 1 /\ buf[last_pos] = ",") =>
            /\ nodes[top].ready
            /\ PutResult.err = "" =>
                  /\ Len(PutResult.nodes) = Len(nodes) + 1
                  /\ LastChild(PutResult.nodes, top) = Len(nodes) + 1)
    /\ [](status = "parsed" =>
            \A n \in Nodes : (n = root \/ IsGroup(n)) =>
                Len(nodes[n].children) = CommasInside(n) + 1)

\* a parsed tree with a group of three children, the middle one made of the
\* empty text between two ','
C24_Witness ==
    /\ status = "parsed"
    /\ \E n \in Nodes :
          /\ IsGroup(n)
          /\ CommasInside(n) = 2
          /\ LET c == nodes[n].children[2]
             IN  /\ nodes[c].text = Some(<<>>)
                 /\ nodes[c].children = <<>>

AtOpen == status = "parsing" /\ pos < Len(buf) /\ buf[pos + 1] = "("

NoPayload == <<None, None, None, None>>

\* what a '(' step that goes on does: one node is added, the group, without
\* payload, as the last child of the current node, and becomes current; the
\* text before the '(' is left behind the cursor and no payload changes
GroupOpened ==
    /\ status' = "parsing"
    /\ Len(nodes') = Len(nodes) + 1
    /\ top' = Len(nodes) + 1
    /\ nodes'[top'].parent = top
    /\ nodes'[top'].start = Some(pos)
    /\ Payload(nodes', top') = NoPayload
    /\ \A n \in Nodes : Payload(nodes', n) = Payload(nodes, n)
    /\ last_pos' = pos + 1
    /\ pos' = pos + 1

\* C25 (as stated): a '(' read with undelivered text before it warns of that
\* text, and the parse goes on with the new group as the current node; the
\* text makes no node and reaches no payload.
C25_JunkWarnedGroupOpened ==
    [][(AtOpen /\ pos > last_pos) =>
         /\ warned' = Append(warned, <<last_pos, pos>>)
         /\ GroupOpened]_vars

\* C25 (amended): a '(' read with undelivered text before it always warns of
\* exactly that span; a '(' without such text warns of nothing.  When the
\* current node is ready the parse goes on: the group is created and becomes
\* current, the text makes no node and reaches no payload.  When the current
\* node is not ready (a child without a ',' after it) the warning is
\* followed by the separator error and no node is added.
C25_JunkWarnedThenSeparatorCheck ==
    [][AtOpen =>
         /\ warned' = IF pos > last_pos THEN Append(warned, <<last_pos, pos>>)
                      ELSE warned
         /\ IF nodes[top].ready THEN GroupOpened
            ELSE /\ status' = "failed"
                 /\ error' = SeparatorError
                 /\ nodes' = nodes
                 /\ top' = top]_vars

\* a tree was parsed after the text between a ',' and a '(' was discarded
C25_Witness ==
    /\ status = "parsed"
    /\ Len(warned) = 1
    /\ warned[1][1] >= 1
    /\ buf[warned[1][1]] = ","
    /\ \A n \in Nodes : nodes[n].text # Some(<<"A">>)

\* C26: a '(' read while the current node is not ready ends the parse with
\* the separator error and adds no node; a '(' read while it is ready never
\* raises that error, and nothing else raises it.  A node gets a child only
\* while it is ready, and a node that is not ready becomes ready only by a
\* ',' read while it is the current node: between two children of a node
\* there is always a ','.
C26_SeparatorBetweenSiblings ==
    [][/\ (AtOpen /\ ~nodes[top].ready) =>
             /\ status' = "failed"
             /\ error' = SeparatorError
             /\ nodes' = nodes
             /\ top' = top
       /\ (AtOpen /\ nodes[top].ready) => error' # SeparatorError
       /\ (error' = SeparatorError /\ error # SeparatorError) => AtOpen
       /\ \A n \in Nodes :
             /\ Len(nodes'[n].children) > Len(nodes[n].children) =>
                   /\ nodes[n].ready
                   /\ Len(nodes'[n].children) = Len(nodes[n].children) + 1
             /\ (~nodes[n].ready /\ nodes'[n].ready) =>
                   (AtComma /\ n = top)]_vars

\* the parse ended at a '(' that follows a ')' directly
C26_Witness ==
    /\ status = "failed"
    /\ error = SeparatorError
    /\ warned = <<>>
    /\ pos >= 1
    /\ buf[pos] = ")"
    /\ buf[pos + 1] = "("
    /\ ~nodes[top].ready

IsBareText(n) == n # root /\ ~IsGroup(n)

\* C27 (as stated): in a parsed tree every node has 0 <= start <= end <=
\* len(s); the root spans 0..len(s); a group starts at its '(' and ends
\* behind its ')'; and s[start:end] of a node made of bare text is the text
\* it was made of.
C27_SpansLocateNodes ==
    status = "parsed" =>
        \A n \in Nodes :
            /\ nodes[n].start # None /\ nodes[n].end # None
            /\ 0 <= nodes[n].start[1]
            /\ nodes[n].start[1] <= nodes[n].end[1]
            /\ nodes[n].end[1] <= Len(buf)
            /\ n = root =>
                  nodes[n].start = Some(0) /\ nodes[n].end = Some(Len(buf))
            /\ IsGroup(n) =>
                  /\ buf[nodes[n].start[1] + 1] = "("
                  /\ buf[nodes[n].end[1]] = ")"
            /\ IsBareText(n) =>
                  Payload(nodes, n)
                      = Decoded(Slice(buf, nodes[n].start[1], nodes[n].end[1]))

\* the spans as the code sets them: the root and the groups as stated; a
\* node of bare text starts at the delimiter that ends its text (at the last
\* character when the input ends it) and is as long as the text
C27_SpansAsCoded ==
    status = "parsed" =>
        \A n \in Nodes :
            /\ n = root =>
                  nodes[n].start = Some(0) /\ nodes[n].end = Some(Len(buf))
            /\ IsGroup(n) =>
                  /\ buf[nodes[n].start[1] + 1] = "("
                  /\ buf[nodes[n].end[1]] = ")"
            /\ IsBareText(n) =>
                  LET st == nodes[n].start[1]
                  IN  /\ \/ buf[st + 1] \in {",", ")"}
                         \/ st = Len(buf) - 1
                      /\ nodes[n].end[1] - st >= 0
                      /\ node_t = Lite =>
                            /\ nodes[n].end[1] = st + Len(nodes[n].text[1])
                            /\ \/ st = Len(buf) - 1
                                  /\ nodes[n].text[1]
                                        = Slice(buf, last_pos, Len(buf))
                               \/ nodes[n].text[1]
                                     = Slice(buf, st - Len(nodes[n].text[1]),
                                             st)

\* C28: in every state a node that is not ready has a child, so the
\* delivery to a node that is not ready always finds a last child.  A node
\* is ready when it is created; a ',' read while it is current makes it
\* ready; a child added to it makes it not ready; nothing else changes the
\* flag.
C28_NotReadyHasChild ==
    /\ [](\A n \in Nodes : ~nodes[n].ready => nodes[n].children # <<>>)
    /\ []((Delivering /\ ~nodes[top].ready) =>
             LastChild(nodes, top) \in Nodes)
    /\ [][/\ \A n \in (Len(nodes) + 1)..Len(nodes') :
                nodes'[n].ready /\ nodes'[n].children = <<>>
          /\ \A n \in Nodes :
                nodes'[n].ready
                    <=> IF AtComma /\ n = top /\ status' = "parsing"
                        THEN TRUE
                        ELSE IF Len(nodes'[n].children)
                                   > Len(nodes[n].children)
                        THEN FALSE
                        ELSE nodes[n].ready]_vars

\* the parse is under way with a node that became not ready for the second
\* time, below a node that is ready again
C28_Witness ==
    /\ status = "parsing"
    /\ \E n \in Nodes :
          /\ ~nodes[n].ready
          /\ Len(nodes[n].children) >= 2
          /\ nodes[n].parent # NoNode
          /\ nodes[nodes[n].parent].ready
          /\ Len(nodes[nodes[n].parent].children) >= 2

\* C29: the parse of the empty string ends without error, with the root
\* spanning 0..0.
C29_EmptyStringParses ==
    (buf = <<>> /\ Finished) =>
        /\ status = "parsed"
        /\ top = root
        /\ nodes[root].start = Some(0)
        /\ nodes[root].end = Some(0)

\* the errors that abort a parse
FatalErrors ==
    {OrphanError, UnclosedError, SeparatorError, "ValueError",
     "JplaceTreeFormatError", "AssertionError", "UnboundLocalError"}

\* C30: a parse that aborted leaves the tree with its root and the nodes
\* built so far; every later parse() call on that tree raises the re-parse
\* error and changes nothing, so the tree never becomes a parsed one.
C30_FailedParseIsFinal ==
    /\ [](status = "failed" =>
             /\ error \in FatalErrors
             /\ root \in Nodes
             /\ nodes[root].parent = NoNode)
    /\ [][status = "failed" =>
             /\ status' = "failed"
             /\ root' = root
             /\ nodes' = nodes
             /\ error' = error
             /\ calls' = calls + 1 => reparse' = "RuntimeError"]_vars

\* parse() was called again on a tree whose parse had aborted on a missing
\* separator, with the partial tree still there
C30_Witness ==
    /\ calls = 2
    /\ status = "failed"
    /\ error = SeparatorError
    /\ reparse = "RuntimeError"
    /\ Len(nodes) >= 3

====
